---- MODULE Spec2Model ----
(***************************************************************************)
(* Model of the manual data-collection control loop of                     *)
(* Step1-Data-Collection/data_collection_main.py.                          *)
(*                                                                         *)
(* and of the autonomous loop of                                           *)
(* Step3-Implementation/autonomous_car_controller.py, which shares the     *)
(* names of its globals speed and angle.                                   *)
(*                                                                         *)
(* One Tick action is one pass of the body of `while True` in main():       *)
(* get_key_press, update_movement_controls, the drive command, the          *)
(* recording-session step and the terminate check.  Speeds and angles are   *)
(* counted in units of the increment 0.1 (speed = 5 stands for 0.5).        *)
(* The keyboard, the camera, the file system and the log writer are the     *)
(* environment: each tick draws the set of keys that are down and the       *)
(* outcome of every collaborator call that can raise.                       *)
(***************************************************************************)
EXTENDS Integers, Sequences, FiniteSets, TLC

VARIABLES
    key_val,        \* last key sampled pressed
    key_press_t,    \* set of keys whose key_press_t entry is True
    key_press_t_1,  \* set of keys whose key_press_t_1 entry is True
    speed, angle,   \* motion state, in steps of 0.1
    record, done,   \* recording flag and terminate counter
    img_list, speed_list, angle_list,   \* DataCollector's in-memory sequences
    folder_index,   \* DataCollector.folder_index
    new_path,       \* index N of the session directory img<N> (-1: unbound)
    dirs,           \* indices N for which <data root>/img<N> exists
    created,        \* indices of the directories this run created, in order
    camera,         \* the camera handle, with counts of opens and releases
    motor,          \* last drive command issued to the motor controller
    pc,             \* "running", "exited" (break) or "crashed" (exception)
    calls,          \* collaborator calls made by the last tick, in order
    raised,         \* the call that raised in the last tick, or "none"
    record_steps,   \* the values assigned to record in the last tick, in order
    pressed,        \* keys that were down in the last tick
    fired,          \* key whose action the last tick applied, or "none"
    truth,          \* (speed, angle) in effect at each capture of the session
    flush,          \* the log the last save_log persisted, and the truth then
    history,        \* key samples and outcomes of the first ticks of the run
    uart,           \* the serial connection: is_open, and the messages written
    prediction,     \* model output of the last autonomous tick, or <<>>
    session_age     \* ticks the open session has run through, 0 outside one

vars == <<key_val, key_press_t, key_press_t_1, speed, angle, record, done,
          img_list, speed_list, angle_list, folder_index, new_path, dirs,
          created, camera, motor, pc, calls, raised, record_steps, pressed,
          fired, truth, flush, history, session_age, uart, prediction>>

----------------------------------------------------------------------------
(* Program constants *)

KEY_LIST == <<"RIGHT", "LEFT", "UP", "DOWN", "r", "g", "s", "k">>

Keys == {KEY_LIST[i] : i \in 1..Len(KEY_LIST)}

\* the literal 0.1 added to or subtracted from speed and angle
STEP == 1

\* the speed 0.5 assigned by "g"
GO_SPEED == 5

----------------------------------------------------------------------------
(* Bounds of the model *)

\* ticks that would take |speed| or |angle| beyond this are not explored
MaxSteps == 2

\* the same bound for the runs that only accelerate (SpecClamp): 1.1
MaxDriveSteps == 11

\* a session captures at most this many frames
MaxFrames == 2

\* at most this many session directories are created by the run
MaxSessions == 2

\* the data root holds directories img0 .. img<MaxInitDir> at most at start
MaxInitDir == 1

\* at most this many keys are down at once in the runs with chords
MaxPressed == 2

\* the model predicts speeds and angles of at most this many tenths
MaxPrediction == 1

\* the autonomous loop is followed for this many ticks
MaxUartTicks == 2

----------------------------------------------------------------------------
(* get_key_press *)

\* the body of `for key in KEY_LIST`, from the i-th key on: the first key
\* that is down becomes key_val and is marked True, and the scan stops; every
\* key tried before it is marked False; keys after it keep their old mark
RECURSIVE ScanKeys(_, _, _, _)
ScanKeys(i, down, kv, t) ==
    IF i > Len(KEY_LIST)
    THEN [key_val |-> kv, key_press_t |-> t]
    ELSE IF KEY_LIST[i] \in down
         THEN [key_val |-> KEY_LIST[i], key_press_t |-> t \cup {KEY_LIST[i]}]
         ELSE ScanKeys(i + 1, down, kv, t \ {KEY_LIST[i]})

\* the scan without its break: every key is sampled, the last one down wins
get_key_press_NoBreak(down, kv, t) ==
    [key_val |-> IF down = {} THEN kv
                 ELSE KEY_LIST[CHOOSE i \in 1..Len(KEY_LIST) :
                                  /\ KEY_LIST[i] \in down
                                  /\ \A j \in (i + 1)..Len(KEY_LIST) :
                                        KEY_LIST[j] \notin down],
     key_press_t |-> down]

get_key_press(down, kv, t) == ScanKeys(1, down, kv, t)

----------------------------------------------------------------------------
(* update_movement_controls *)

\* KeyAction with a stop that zeroes the speed and forgets the angle
KeyAction_StopKeepsAngle(kv, m) ==
    CASE kv = "RIGHT" -> [m EXCEPT !.angle = m.angle + STEP]
      [] kv = "LEFT"  -> [m EXCEPT !.angle = m.angle - STEP]
      [] kv = "UP"    -> [m EXCEPT !.speed = m.speed + STEP, !.angle = 0]
      [] kv = "DOWN"  -> [m EXCEPT !.speed = m.speed - STEP, !.angle = 0]
      [] kv = "r"     -> [m EXCEPT !.record = m.record + 1]
      [] kv = "g"     -> [m EXCEPT !.speed = GO_SPEED, !.angle = 0]
      [] kv = "s"     -> [m EXCEPT !.speed = 0]
      [] kv = "k"     -> [m EXCEPT !.done = m.done + 1]

\* KeyAction with speed keys that leave the steering angle alone
KeyAction_SpeedKeepsAngle(kv, m) ==
    CASE kv = "RIGHT" -> [m EXCEPT !.angle = m.angle + STEP]
      [] kv = "LEFT"  -> [m EXCEPT !.angle = m.angle - STEP]
      [] kv = "UP"    -> [m EXCEPT !.speed = m.speed + STEP]
      [] kv = "DOWN"  -> [m EXCEPT !.speed = m.speed - STEP]
      [] kv = "r"     -> [m EXCEPT !.record = m.record + 1]
      [] kv = "g"     -> [m EXCEPT !.speed = GO_SPEED, !.angle = 0]
      [] kv = "s"     -> [m EXCEPT !.speed = 0, !.angle = 0]
      [] kv = "k"     -> [m EXCEPT !.done = m.done + 1]

\* KeyAction with a record key that also brings the car to rest
KeyAction_RecordStops(kv, m) ==
    CASE kv = "RIGHT" -> [m EXCEPT !.angle = m.angle + STEP]
      [] kv = "LEFT"  -> [m EXCEPT !.angle = m.angle - STEP]
      [] kv = "UP"    -> [m EXCEPT !.speed = m.speed + STEP, !.angle = 0]
      [] kv = "DOWN"  -> [m EXCEPT !.speed = m.speed - STEP, !.angle = 0]
      [] kv = "r"     -> [m EXCEPT !.record = m.record + 1, !.speed = 0,
                                   !.angle = 0]
      [] kv = "g"     -> [m EXCEPT !.speed = GO_SPEED, !.angle = 0]
      [] kv = "s"     -> [m EXCEPT !.speed = 0, !.angle = 0]
      [] kv = "k"     -> [m EXCEPT !.done = m.done + 1]

\* the if/elif chain on key_val; m is [speed, angle, record, done]
KeyAction(kv, m) ==
    CASE kv = "RIGHT" -> [m EXCEPT !.angle = m.angle + STEP]
      [] kv = "LEFT"  -> [m EXCEPT !.angle = m.angle - STEP]
      [] kv = "UP"    -> [m EXCEPT !.speed = m.speed + STEP, !.angle = 0]
      [] kv = "DOWN"  -> [m EXCEPT !.speed = m.speed - STEP, !.angle = 0]
      [] kv = "r"     -> [m EXCEPT !.record = m.record + 1]
      [] kv = "g"     -> [m EXCEPT !.speed = GO_SPEED, !.angle = 0]
      [] kv = "s"     -> [m EXCEPT !.speed = 0, !.angle = 0]
      [] kv = "k"     -> [m EXCEPT !.done = m.done + 1]

\* update_movement_controls without the edge test: the key acts on every
\* tick in which its entry is True
update_movement_controls_Level(kv, t, t1, m) ==
    IF kv \in t
    THEN [key_press_t_1 |-> t1 \cup {kv}, m |-> KeyAction(kv, m), fired |-> kv]
    ELSE [key_press_t_1 |-> t1 \ {kv}, m |-> m, fired |-> "none"]

\* the edge test on the entry of key_val only: key_press_t_1[key_val] is
\* brought up to date, and the key acts when its entry went False -> True
update_movement_controls(kv, t, t1, m) ==
    IF (kv \in t) # (kv \in t1)
    THEN IF kv \in t
         THEN [key_press_t_1 |-> t1 \cup {kv}, m |-> KeyAction(kv, m),
               fired |-> kv]
         ELSE [key_press_t_1 |-> t1 \ {kv}, m |-> m, fired |-> "none"]
    ELSE [key_press_t_1 |-> t1, m |-> m, fired |-> "none"]

----------------------------------------------------------------------------
(* main: the drive command *)

DriveCommand(s, a) ==
    IF s >= 0
    THEN [cmd |-> "move_forward", speed |-> s, angle |-> a]
    ELSE [cmd |-> "move_backward", speed |-> s, angle |-> a]

----------------------------------------------------------------------------
(* CameraController *)

\* init_camera: self.camera is assigned before isOpened() is tested, so the
\* handle is set also when the RuntimeError is raised
init_camera(cam, ok) ==
    [state |-> IF ok THEN "open" ELSE "unopened",
     acquired |-> cam.acquired + 1, released |-> cam.released]

\* release_camera without the `is not None` test
release_camera_Unguarded(cam) ==
    [cam EXCEPT !.state = "released", !.released = cam.released + 1]

\* release_camera: a no-op while self.camera is None
release_camera(cam) ==
    IF cam.state # "none"
    THEN [cam EXCEPT !.state = "released", !.released = cam.released + 1]
    ELSE cam

----------------------------------------------------------------------------
(* DataCollector: collect_data and save_log.  data_collection_module is not  *)
(* among the sources; it is modelled as three parallel sequences (frame     *)
(* references, speeds, angles) and a log of one record per frame.           *)

collect_data(c, img_path, s, a) ==
    [c EXCEPT !.img_list = Append(c.img_list, img_path),
              !.speed_list = Append(c.speed_list, s),
              !.angle_list = Append(c.angle_list, a)]

\* the records save_log writes: one per frame reference, in capture order,
\* each with the entries of the speed and angle sequences at its index
LogRecords(c) ==
    [i \in 1..Len(c.img_list) |->
        [img |-> c.img_list[i], speed |-> c.speed_list[i],
         angle |-> c.angle_list[i]]]

\* save_log persists the records as the log of the session directory
save_log(c) ==
    [c EXCEPT !.flush = [n |-> c.flush.n + 1, dir |-> c.folder_index,
                         records |-> LogRecords(c), truth |-> c.truth]]

----------------------------------------------------------------------------
(* main: the recording-session step.  c is the state of the tick so far;    *)
(* c.status turns "crashed" at the call that raises, and the rest of the    *)
(* tick is then skipped.                                                    *)

Call(c, name) == [c EXCEPT !.calls = Append(c.calls, name)]

\* the last call of c.calls raises: the exception leaves main()
Raise(c) == [c EXCEPT !.status = "crashed", !.raised = c.calls[Len(c.calls)]]

\* the assignment left out
SetRecord_Dropped(c, v) == c

\* an assignment to the global `record`
SetRecord(c, v) ==
    [c EXCEPT !.record = v, !.record_steps = Append(c.record_steps, v)]

\* the directory scan left out: folder_index is taken as it is
FirstFree_NoScan(existing, i) == i

\* `while os.path.exists(img<folder_index>): folder_index += 1`
RECURSIVE FirstFree(_, _)
FirstFree(existing, i) ==
    IF i \in existing THEN FirstFree(existing, i + 1) ELSE i

\* `if record == 1:` -- init_camera, directory scan, makedirs, record += 1
StartRecording(c, fail) ==
    IF c.record # 1 THEN c
    ELSE LET c1 == [Call(c, "init_camera") EXCEPT
                        !.camera = init_camera(c.camera,
                                                  fail # "init_camera")]
             n  == FirstFree(c.dirs, c.folder_index)
             c2 == [Call(c1, "makedirs") EXCEPT !.folder_index = n]
         IN IF fail = "init_camera" THEN Raise(c1)
            ELSE IF fail = "makedirs" THEN Raise(c2)
            ELSE SetRecord([c2 EXCEPT !.new_path = n,
                                      !.dirs = c2.dirs \cup {n},
                                      !.created = Append(c2.created, n),
                                      !.truth = <<>>],
                           c2.record + 1)

\* `if record == 2:` -- get_img, collect_data.  The frame reference is the
\* session directory and the frame's index; its timestamp is left out.
CollectData(c, fail) ==
    LET img_path == [dir |-> c.new_path, idx |-> Len(c.img_list)]
        c1 == Call(c, "get_img")
        c2 == collect_data(Call(c1, "collect_data"), img_path,
                           c.speed, c.angle)
    IN IF fail = "get_img" THEN Raise(c1)
       ELSE [c2 EXCEPT !.truth = Append(c2.truth,
                                 [speed |-> c.speed, angle |-> c.angle])]

\* SaveAndReset without `record = 0`
SaveAndReset_KeepsRecord(c, fail) ==
    LET c1 == Call(c, "save_log")
        c2 == save_log(c1)
    IN IF fail = "save_log" THEN Raise(c1)
       ELSE [c2 EXCEPT !.img_list = <<>>,
                       !.angle_list = <<>>]

\* `elif record == 3:` -- record = 0, save_log, clear img_list and angle_list
SaveAndReset(c, fail) ==
    LET c1 == Call(SetRecord(c, 0), "save_log")
        c2 == save_log(c1)
    IN IF fail = "save_log" THEN Raise(c1)
       ELSE [c2 EXCEPT !.img_list = <<>>,
                       !.angle_list = <<>>]

\* the three record blocks as one if/elif chain: the tick that starts a
\* session captures nothing
RecordingStep_OneBlockPerTick(c, fail) ==
    IF c.record = 1 THEN StartRecording(c, fail)
    ELSE IF c.record = 2 THEN CollectData(c, fail)
    ELSE IF c.record = 3 THEN SaveAndReset(c, fail)
    ELSE c

\* the record blocks: `if record == 1`, then `if record == 2 / elif record == 3`
RecordingStep(c, fail) ==
    LET c1 == StartRecording(c, fail)
    IN IF c1.status # "ok" THEN c1
       ELSE IF c1.record = 2 THEN CollectData(c1, fail)
       ELSE IF c1.record = 3 THEN SaveAndReset(c1, fail)
       ELSE c1

\* `if done != 0:` -- stop, release_camera, release, break
Terminate(c) ==
    IF c.status # "ok" \/ c.done = 0 THEN c
    ELSE LET c1 == [Call(c, "stop") EXCEPT
                        !.motor = [cmd |-> "stop", speed |-> 0, angle |-> 0]]
             c2 == [Call(c1, "release_camera") EXCEPT
                        !.camera = release_camera(c1.camera)]
             c3 == Call(c2, "release")
         IN [c3 EXCEPT !.status = "exited"]

----------------------------------------------------------------------------
(* main: one pass of the loop body *)

\* the loop body with the drive command issued before the motion update
MainLoopBody_DriveBeforeUpdate(down, fail) ==
    LET k  == get_key_press(down, key_val, key_press_t)
        u  == update_movement_controls(k.key_val, k.key_press_t, key_press_t_1,
                  [speed |-> speed, angle |-> angle,
                   record |-> record, done |-> done])
        drive == DriveCommand(speed, angle)
        c0 == [status |-> "ok", calls |-> <<drive.cmd>>, motor |-> drive,
               raised |-> "none",
               record_steps |-> IF u.m.record # record
                                THEN <<u.m.record>> ELSE <<>>,
               speed |-> u.m.speed, angle |-> u.m.angle,
               record |-> u.m.record, done |-> u.m.done,
               img_list |-> img_list, speed_list |-> speed_list,
               angle_list |-> angle_list, folder_index |-> folder_index,
               new_path |-> new_path, dirs |-> dirs, created |-> created,
               camera |-> camera, truth |-> truth,
               flush |-> flush]
        c1 == RecordingStep(c0, fail)
    IN [key_val |-> k.key_val, key_press_t |-> k.key_press_t,
        key_press_t_1 |-> u.key_press_t_1, fired |-> u.fired,
        c |-> Terminate(c1)]

\* the state at the end of one pass of `while True`, for the keys `down`
\* and the call that raises in this pass (`fail`, "none" when none does)
MainLoopBody(down, fail) ==
    LET k  == get_key_press(down, key_val, key_press_t)
        u  == update_movement_controls(k.key_val, k.key_press_t, key_press_t_1,
                  [speed |-> speed, angle |-> angle,
                   record |-> record, done |-> done])
        drive == DriveCommand(u.m.speed, u.m.angle)
        c0 == [status |-> "ok", calls |-> <<drive.cmd>>, motor |-> drive,
               raised |-> "none",
               record_steps |-> IF u.m.record # record
                                THEN <<u.m.record>> ELSE <<>>,
               speed |-> u.m.speed, angle |-> u.m.angle,
               record |-> u.m.record, done |-> u.m.done,
               img_list |-> img_list, speed_list |-> speed_list,
               angle_list |-> angle_list, folder_index |-> folder_index,
               new_path |-> new_path, dirs |-> dirs, created |-> created,
               camera |-> camera, truth |-> truth,
               flush |-> flush]
        c1 == RecordingStep(c0, fail)
    IN [key_val |-> k.key_val, key_press_t |-> k.key_press_t,
        key_press_t_1 |-> u.key_press_t_1, fired |-> u.fired,
        c |-> Terminate(c1)]

----------------------------------------------------------------------------
(* Observation of the first ticks of a run *)

\* UP, UP, r, r sampled down on four consecutive ticks
ScenarioHeld == <<{"UP"}, {"UP"}, {"r"}, {"r"}>>

\* the same four presses, each released for one tick before the next
ScenarioEdges == <<{"UP"}, {}, {"UP"}, {}, {"r"}, {}, {"r"}>>

Scenarios == {ScenarioHeld, ScenarioEdges}

IsPrefix(p, q) == Len(p) <= Len(q) /\ \A i \in 1..Len(p) : p[i] = q[i]

Abs(x) == IF x < 0 THEN -x ELSE x

\* the key samples of the recording runs (Spec): no key, or one of these
RecordingKeys == {"UP", "r", "k"}

PressedSets == {{}} \cup {{k} : k \in RecordingKeys}

\* the key samples of the driving runs (SpecMotion): no key, or one of these
MotionKeys == {"RIGHT", "LEFT", "UP", "DOWN", "s"}

MotionSets == {{}} \cup {{k} : k \in MotionKeys}

\* the key samples of the accelerating runs (SpecClamp)
ClampKeys == {"UP", "DOWN", "g"}

ClampSets == {{}} \cup {{k} : k \in ClampKeys}

\* the key samples of the runs with several keys down at once (SpecChord)
ChordKeys == {"RIGHT", "UP", "s", "k"}

ChordSets == {d \in SUBSET ChordKeys : Cardinality(d) <= MaxPressed}

InitDirs == SUBSET (0..MaxInitDir)

\* the calls of the loop body that can raise
Failures == {"none", "init_camera", "makedirs", "get_img", "save_log"}

----------------------------------------------------------------------------
(* The state machine *)

Init ==
    /\ key_val = KEY_LIST[1]
    /\ key_press_t = {}
    /\ key_press_t_1 = {}
    /\ speed = 0
    /\ angle = 0
    /\ record = 0
    /\ done = 0
    /\ img_list = <<>>
    /\ speed_list = <<>>
    /\ angle_list = <<>>
    /\ folder_index = 0
    /\ new_path = -1
    /\ dirs \in InitDirs
    /\ created = <<>>
    /\ camera = [state |-> "none", acquired |-> 0, released |-> 0]
    /\ motor = [cmd |-> "none", speed |-> 0, angle |-> 0]
    /\ pc = "running"
    /\ calls = <<>>
    /\ raised = "none"
    /\ record_steps = <<>>
    /\ pressed = {}
    /\ fired = "none"
    /\ truth = <<>>
    /\ flush = [n |-> 0, dir |-> -1, records |-> <<>>, truth |-> <<>>]
    /\ history = [on |-> TRUE, keys |-> <<>>, obs |-> <<>>]
    /\ session_age = 0
    /\ uart = [is_open |-> FALSE, written |-> <<>>]
    /\ prediction = <<>>

\* one pass of the loop body, for the keys `down` and the raising call `fail`
Tick(down, fail) ==
    /\ pc = "running"
    /\ \E r \in {MainLoopBody(down, fail)} :
        LET c == r.c
            hk == Append(history.keys, down)
        IN /\ (fail # "none") => (c.status = "crashed")
           /\ key_val' = r.key_val
           /\ key_press_t' = r.key_press_t
           /\ key_press_t_1' = r.key_press_t_1
           /\ speed' = c.speed
           /\ angle' = c.angle
           /\ record' = c.record
           /\ done' = c.done
           /\ img_list' = c.img_list
           /\ speed_list' = c.speed_list
           /\ angle_list' = c.angle_list
           /\ folder_index' = c.folder_index
           /\ new_path' = c.new_path
           /\ dirs' = c.dirs
           /\ created' = c.created
           /\ camera' = c.camera
           /\ motor' = c.motor
           /\ pc' = IF c.status = "ok" THEN "running" ELSE c.status
           /\ calls' = c.calls
           /\ raised' = c.raised
           /\ record_steps' = c.record_steps
           /\ pressed' = down
           /\ fired' = r.fired
           /\ truth' = c.truth
           /\ flush' = c.flush
           /\ history' =
                IF history.on /\ c.status = "ok"
                   /\ \E sc \in Scenarios : IsPrefix(hk, sc)
                THEN [on |-> TRUE, keys |-> hk,
                      obs |-> Append(history.obs,
                                [speed |-> c.speed, record |-> c.record,
                                 flushes |-> c.flush.n,
                                 flushed |-> Len(c.flush.records)])]
                ELSE [on |-> FALSE, keys |-> <<>>, obs |-> <<>>]
           /\ session_age' = IF c.status = "crashed" THEN session_age
                              ELSE IF c.record = 2 THEN session_age + 1
                              ELSE 0
           /\ UNCHANGED <<uart, prediction>>

\* the ticks the model explores: motion, frames and sessions within bounds
Bounded(steps) ==
    /\ Abs(speed') <= steps
    /\ Abs(angle') <= steps
    /\ Len(img_list') <= MaxFrames
    /\ Len(created') <= MaxSessions
    /\ session_age' <= MaxFrames

\* recording runs: every collaborator call may raise
Next == \E down \in PressedSets, fail \in Failures :
            Tick(down, fail) /\ Bounded(MaxSteps)

Spec == Init /\ [][Next]_vars

\* driving runs: the steering, speed and stop keys, no recording
NextMotion == \E down \in MotionSets : Tick(down, "none") /\ Bounded(MaxSteps)

SpecMotion == Init /\ [][NextMotion]_vars

\* accelerating runs: speed keys only, over a wide range of speeds
NextClamp == \E down \in ClampSets :
                Tick(down, "none") /\ Bounded(MaxDriveSteps)

SpecClamp == Init /\ [][NextClamp]_vars

\* runs with chords: up to MaxPressed keys down in the same tick
NextChord == \E down \in ChordSets : Tick(down, "none") /\ Bounded(MaxSteps)

SpecChord == Init /\ [][NextChord]_vars

----------------------------------------------------------------------------
(* The autonomous loop of autonomous_car_controller.py.  The camera and the *)
(* model are the environment: each tick draws the prediction and the point  *)
(* at which a call raises or the operator interrupts.                       *)

Digit == <<"0", "1", "2", "3", "4", "5", "6", "7", "8", "9">>

\* str() of the float x/10, for |x| < 100: "0.5", "-0.1", "1.0"
FloatText(x) ==
    LET a == Abs(x)
        body == <<Digit[(a \div 10) + 1], ".", Digit[(a % 10) + 1]>>
    IN IF x < 0 THEN <<"-">> \o body ELSE body

\* the two numbers written in the other order
CommandText_AngleFirst(s, a) == FloatText(a) \o <<",">> \o FloatText(s)

\* f"{speed},{angle}"
CommandText(s, a) == FloatText(s) \o <<",">> \o FloatText(a)

StopText == <<"s", "t", "o", "p">>

\* send_data without the is_open test
send_data_Unguarded(u, data) == [u EXCEPT !.written = Append(u.written, data)]

\* UartController.send_data: written only while the connection is open
send_data(u, data) ==
    IF u.is_open THEN [u EXCEPT !.written = Append(u.written, data)] ELSE u

\* UartController.close
close(u) == IF u.is_open THEN [u EXCEPT !.is_open = FALSE] ELSE u

send_movement_commands(c) ==
    [Call(c, "send_data") EXCEPT
        !.uart = send_data(c.uart, CommandText(c.speed, c.angle))]

\* `except KeyboardInterrupt:` -- send "stop", close, and main returns
Interrupted(c) ==
    LET c1 == [Call(c, "send_data") EXCEPT
                   !.uart = send_data(c.uart, StopText)]
        c2 == [Call(c1, "close") EXCEPT !.uart = close(c1.uart)]
    IN [c2 EXCEPT !.status = "exited"]

\* what can cut a tick short: a call that raises, or Ctrl-C during a call
UartOutcomes == {"none", "get_img", "predict", "interrupt_get_img",
                 "interrupt_send_data", "interrupt_waitKey"}

Predictions == {<<s, a>> : s \in (-MaxPrediction)..MaxPrediction,
                          a \in (-MaxPrediction)..MaxPrediction}

\* the loop body with a failed capture or prediction answered by a command
\* built from the speed and angle of the tick before
UartLoopBody_SubstitutesStale(pred, outcome) ==
    LET c0 == [speed |-> speed, angle |-> angle, uart |-> uart,
               prediction |-> <<>>, calls |-> <<>>, status |-> "ok",
               raised |-> "none"]
        c1 == Call(c0, "get_img")
        c2 == Call(c1, "predict")
        c3 == [c2 EXCEPT !.prediction = pred, !.speed = pred[1],
                         !.angle = pred[2]]
        c4 == send_movement_commands(c3)
        c5 == Call(c4, "waitKey")
    IN CASE outcome = "get_img" -> send_movement_commands(Raise(c1))
         [] outcome = "interrupt_get_img" -> Interrupted(c1)
         [] outcome = "predict" -> send_movement_commands(Raise(c2))
         [] outcome = "interrupt_send_data" -> Interrupted(c3)
         [] outcome = "interrupt_waitKey" -> Interrupted(c5)
         [] OTHER -> c5

\* the body of `while True:` for the model output pred
UartLoopBody(pred, outcome) ==
    LET c0 == [speed |-> speed, angle |-> angle, uart |-> uart,
               prediction |-> <<>>, calls |-> <<>>, status |-> "ok",
               raised |-> "none"]
        c1 == Call(c0, "get_img")
        c2 == Call(c1, "predict")
        c3 == [c2 EXCEPT !.prediction = pred, !.speed = pred[1],
                         !.angle = pred[2]]
        c4 == send_movement_commands(c3)
        c5 == Call(c4, "waitKey")
    IN CASE outcome = "get_img" -> Raise(c1)
         [] outcome = "interrupt_get_img" -> Interrupted(c1)
         [] outcome = "predict" -> Raise(c2)
         [] outcome = "interrupt_send_data" -> Interrupted(c3)
         [] outcome = "interrupt_waitKey" -> Interrupted(c5)
         [] OTHER -> c5

\* the state once the module has been imported: the serial port is open and
\* the camera started
InitUart ==
    /\ key_val = KEY_LIST[1]
    /\ key_press_t = {}
    /\ key_press_t_1 = {}
    /\ speed = 0
    /\ angle = 0
    /\ record = 0
    /\ done = 0
    /\ img_list = <<>>
    /\ speed_list = <<>>
    /\ angle_list = <<>>
    /\ folder_index = 0
    /\ new_path = -1
    /\ dirs = {}
    /\ created = <<>>
    /\ camera = [state |-> "open", acquired |-> 1, released |-> 0]
    /\ motor = [cmd |-> "none", speed |-> 0, angle |-> 0]
    /\ pc = "running"
    /\ calls = <<>>
    /\ raised = "none"
    /\ record_steps = <<>>
    /\ pressed = {}
    /\ fired = "none"
    /\ truth = <<>>
    /\ flush = [n |-> 0, dir |-> -1, records |-> <<>>, truth |-> <<>>]
    /\ history = [on |-> FALSE, keys |-> <<>>, obs |-> <<>>]
    /\ session_age = 0
    /\ uart = [is_open |-> TRUE, written |-> <<>>]
    /\ prediction = <<>>

\* one pass of the autonomous loop body
UartTick(pred, outcome) ==
    /\ pc = "running"
    /\ Len(uart.written) < MaxUartTicks
    /\ \E c \in {UartLoopBody(pred, outcome)} :
        /\ speed' = c.speed
        /\ angle' = c.angle
        /\ uart' = c.uart
        /\ prediction' = c.prediction
        /\ calls' = c.calls
        /\ raised' = c.raised
        /\ pc' = IF c.status = "ok" THEN "running" ELSE c.status
    /\ UNCHANGED <<key_val, key_press_t, key_press_t_1, record, done,
                   img_list, speed_list, angle_list, folder_index, new_path,
                   dirs, created, camera, motor, record_steps, pressed,
                   fired, truth, flush, history, session_age>>

NextUart == \E pred \in Predictions, outcome \in UartOutcomes :
                UartTick(pred, outcome)

SpecUart == InitUart /\ [][NextUart]_vars

----------------------------------------------------------------------------
(* UartController on its own: a client that calls send_data and close in   *)
(* any order on the connection opened by the constructor.                   *)

Messages == {CommandText(p[1], p[2]) : p \in Predictions} \cup {StopText}

UartSend(data) ==
    /\ uart.is_open => Len(uart.written) < MaxUartTicks
    /\ uart' = send_data(uart, data)
    /\ calls' = <<"send_data">>
    /\ UNCHANGED <<key_val, key_press_t, key_press_t_1, speed, angle, record,
                   done, img_list, speed_list, angle_list, folder_index,
                   new_path, dirs, created, camera, motor, pc, raised,
                   record_steps, pressed, fired, truth, flush, history, session_age,
                   prediction>>

UartClose ==
    /\ uart' = close(uart)
    /\ calls' = <<"close">>
    /\ UNCHANGED <<key_val, key_press_t, key_press_t_1, speed, angle, record,
                   done, img_list, speed_list, angle_list, folder_index,
                   new_path, dirs, created, camera, motor, pc, raised,
                   record_steps, pressed, fired, truth, flush, history, session_age,
                   prediction>>

NextPort == (\E data \in Messages : UartSend(data)) \/ UartClose

SpecPort == InitUart /\ [][NextPort]_vars

----------------------------------------------------------------------------
(* The autonomous loop of dummy.py, which drives the motor directly.  speed *)
(* and angle are the locals of its main().                                  *)

\* what can cut a tick short: a call that raises, or Ctrl-C (not handled)
DummyOutcomes == {"none", "get_img", "predict", "KeyboardInterrupt"}

\* the loop body driving the motor with the values of the tick before
DummyLoopBody_StaleCommand(pred, outcome) ==
    LET c0 == [speed |-> speed, angle |-> angle, motor |-> motor,
               prediction |-> <<>>, calls |-> <<>>, status |-> "ok",
               raised |-> "none"]
        c1 == Call(c0, "get_img")
        c2 == Call(c1, "predict")
        c3 == [c2 EXCEPT !.prediction = pred, !.speed = pred[1],
                         !.angle = pred[2]]
        c4 == [Call(c3, "move_forward") EXCEPT
                  !.motor = [cmd |-> "move_forward", speed |-> c0.speed,
                             angle |-> c0.angle]]
        c5 == Call(c4, "waitKey")
    IN CASE outcome = "get_img" -> Raise(c1)
         [] outcome = "predict" -> Raise(c2)
         [] outcome = "KeyboardInterrupt" -> Raise(c5)
         [] OTHER -> c5

\* the body of `while True:` for the model output pred
DummyLoopBody(pred, outcome) ==
    LET c0 == [speed |-> speed, angle |-> angle, motor |-> motor,
               prediction |-> <<>>, calls |-> <<>>, status |-> "ok",
               raised |-> "none"]
        c1 == Call(c0, "get_img")
        c2 == Call(c1, "predict")
        c3 == [c2 EXCEPT !.prediction = pred, !.speed = pred[1],
                         !.angle = pred[2]]
        c4 == [Call(c3, "move_forward") EXCEPT
                  !.motor = [cmd |-> "move_forward", speed |-> c3.speed,
                             angle |-> c3.angle]]
        c5 == Call(c4, "waitKey")
    IN CASE outcome = "get_img" -> Raise(c1)
         [] outcome = "predict" -> Raise(c2)
         [] outcome = "KeyboardInterrupt" -> Raise(c5)
         [] OTHER -> c5

\* the state on entry to the loop: camera.init_camera() has been called and
\* no serial connection exists
InitDummy ==
    /\ key_val = KEY_LIST[1]
    /\ key_press_t = {}
    /\ key_press_t_1 = {}
    /\ speed = 0
    /\ angle = 0
    /\ record = 0
    /\ done = 0
    /\ img_list = <<>>
    /\ speed_list = <<>>
    /\ angle_list = <<>>
    /\ folder_index = 0
    /\ new_path = -1
    /\ dirs = {}
    /\ created = <<>>
    /\ camera = [state |-> "open", acquired |-> 1, released |-> 0]
    /\ motor = [cmd |-> "none", speed |-> 0, angle |-> 0]
    /\ pc = "running"
    /\ calls = <<>>
    /\ raised = "none"
    /\ record_steps = <<>>
    /\ pressed = {}
    /\ fired = "none"
    /\ truth = <<>>
    /\ flush = [n |-> 0, dir |-> -1, records |-> <<>>, truth |-> <<>>]
    /\ history = [on |-> FALSE, keys |-> <<>>, obs |-> <<>>]
    /\ session_age = 0
    /\ uart = [is_open |-> FALSE, written |-> <<>>]
    /\ prediction = <<>>

\* one pass of the loop body of dummy.py
DummyTick(pred, outcome) ==
    /\ pc = "running"
    /\ \E c \in {DummyLoopBody(pred, outcome)} :
        /\ speed' = c.speed
        /\ angle' = c.angle
        /\ motor' = c.motor
        /\ prediction' = c.prediction
        /\ calls' = c.calls
        /\ raised' = c.raised
        /\ pc' = IF c.status = "ok" THEN "running" ELSE c.status
    /\ UNCHANGED <<key_val, key_press_t, key_press_t_1, record, done,
                   img_list, speed_list, angle_list, folder_index, new_path,
                   dirs, created, camera, uart, record_steps, pressed,
                   fired, truth, flush, history, session_age>>

NextDummy == \E pred \in Predictions, outcome \in DummyOutcomes :
                DummyTick(pred, outcome)

\* both autonomous scripts: a run is one of the two, told apart by the
\* serial connection, which only autonomous_car_controller.py opens
InitAuto == InitUart \/ InitDummy

NextAuto ==
    \/ (uart.is_open /\ NextUart)
    \/ (~uart.is_open /\ NextDummy)

SpecAuto == InitAuto /\ [][NextAuto]_vars

----------------------------------------------------------------------------
(* Properties *)

Range(q) == {q[i] : i \in 1..Len(q)}

\* C1: a key sampled down alone, after a tick in which it was not down,
\* acts on that first tick, and it does not act again on the later ticks of
\* the hold -- whatever keys were pressed before.
C1_HoldFiresOnce ==
    [][\A k \in Keys :
          /\ (pressed' = {k} /\ k \notin pressed) => fired' = k
          /\ (pressed' = {k} /\ pressed = {k}) => fired' = "none"]_vars

\* C2: speed and angle never leave a range [-max, +max]: repeated increments
\* reach the bound and stay there.  The script configures no max; the
\* formula lets max be any number of steps below the speeds explored, and a
\* state that violates it has left every one of these ranges.
C2_Clamped ==
    \E max \in 0..(MaxDriveSteps - 1) : Abs(speed) <= max /\ Abs(angle) <= max

\* C3: at the end of a tick in which "s" acted, speed and angle are 0.
C3_StopZeroes == (fired = "s") => (speed = 0 /\ angle = 0)

\* "s" acts after UP and RIGHT have acted, and the drive command of the tick
\* carries the zeroed speed
C3_Witness ==
    /\ fired = "s"
    /\ key_press_t_1 = {"RIGHT", "UP", "s"}
    /\ motor = [cmd |-> "move_forward", speed |-> 0, angle |-> 0]

\* C4: the log written by every flush has one record per captured frame, in
\* capture order, and record i carries the speed and the angle that were in
\* effect when frame i was captured.
C4_LogMatchesCaptures ==
    (flush.n > 0) =>
        /\ Len(flush.records) = Len(flush.truth)
        /\ \A i \in 1..Len(flush.records) :
              /\ flush.records[i].img.idx = i - 1
              /\ flush.records[i].speed = flush.truth[i].speed
              /\ flush.records[i].angle = flush.truth[i].angle

\* C5: every session directory is created at the first index, counting up from
\* 0 and from folder_index, at which no directory exists; the directories
\* created by a run are pairwise distinct and none existed before.
C5_FreshDirectory ==
    [][/\ \A i, j \in 1..Len(created') : created'[i] = created'[j] => i = j
       /\ Len(created') > Len(created) =>
            LET n == created'[Len(created')]
            IN /\ created' = Append(created, n)
               /\ n \notin dirs
               /\ n >= folder_index
               /\ \A m \in 0..(n - 1) : m \in dirs
               /\ dirs' = dirs \cup {n}]_vars

\* two sessions completed in a data root that held img1: img0, then img2
C5_Witness == created = <<0, 2>> /\ flush.n = 2

\* C6: when the loop exits from a tick that began in Capturing, that tick has
\* flushed the session, as the record toggle does.
C6_QuitFlushes ==
    [][(record = 2 /\ pc' = "exited") =>
          (flush'.n = flush.n + 1 /\ img_list' = <<>>)]_vars

\* C7: whenever the loop has ended, by quit or by an exception, the motor was
\* left stopped: its last command is stop() (or at least carries no speed and
\* no angle).
C7_ExitStopsMotor ==
    (pc # "running") =>
        (motor.cmd = "stop" \/ (motor.speed = 0 /\ motor.angle = 0))

\* the speeds observed at the end of the ticks of the run so far
ObservedSpeeds == [i \in 1..Len(history.obs) |-> history.obs[i].speed]

CycleEdges == {<<0, 1>>, <<1, 2>>, <<2, 3>>, <<3, 0>>}

\* C9: record takes the values 0..3 only and moves along
\* 0 -> 1 -> 2 -> 3 -> 0 only; it leaves 0 and it leaves 2 only in a tick in
\* which "r" acted, as the first change of that tick.
C9_RecordCycle ==
    [][LET path == <<record>> \o record_steps'
       IN /\ record' \in 0..3
          /\ record' = path[Len(path)]
          /\ \A i \in 1..(Len(path) - 1) :
                /\ <<path[i], path[i + 1]>> \in CycleEdges
                /\ path[i] \in {0, 2} => (fired' = "r" /\ i = 1)]_vars

\* a tick that closed a session: Capturing -> Flushing -> Idle
C9_Witness == record_steps = <<3, 0>> /\ record = 0 /\ flush.n = 1

\* C10: a failure of the directory creation leaves the loop running, with
\* the session back in Idle.
C10_MkdirFailureKeepsLoop ==
    (raised = "makedirs") => (pc = "running" /\ record = 0)

\* C11: a frame capture that fails during Capturing is transient: the tick
\* appends no triple, and the loop keeps running.
C11_CaptureFailureIsTransient ==
    [][(raised' = "get_img") =>
          /\ pc' = "running"
          /\ img_list' = img_list
          /\ speed_list' = speed_list
          /\ angle_list' = angle_list]_vars

\* C12: the manual loop ends only on a tick in which the quit key 'k' has
\* fired, leaving done non-zero; no collaborator outcome ends it.
C12_EndsOnlyOnQuit ==
    [][(pc = "running" /\ pc' # "running") => (fired' = "k" /\ done' # 0)]_vars

\* C13: the camera handle is acquired at most once per process, and when the
\* loop has exited every acquisition has been matched by one release.
C13_CameraAcquiredOnceReleasedOnce ==
    /\ camera.acquired <= 1
    /\ (pc = "exited") => (camera.released = camera.acquired)

DigitValue(d) == CHOOSE n \in 0..9 : Digit[n + 1] = d

\* the float a receiver reads from the text q, in tenths
ParseFloat(q) ==
    LET neg == q[1] = "-"
        b == IF neg THEN Tail(q) ELSE q
        v == DigitValue(b[1]) * 10 + DigitValue(b[3])
    IN IF neg THEN -v ELSE v

\* the pair a receiver reads from "<speed>,<angle>"
ParseCommand(m) ==
    LET i == CHOOSE j \in 1..Len(m) : m[j] = ","
    IN <<ParseFloat(SubSeq(m, 1, i - 1)), ParseFloat(SubSeq(m, i + 1, Len(m)))>>

\* C14: every tick of the UART loop that runs to its end writes exactly one
\* message, the text "<speed>,<angle>" of the speed and angle predicted in
\* that tick, whether or not they differ from the previous tick's.
C14_OneMessagePerTick ==
    [][(pc' = "running") =>
          /\ uart'.written =
                Append(uart.written, CommandText(speed', angle'))
          /\ ParseCommand(uart'.written[Len(uart'.written)]) = prediction'
          /\ <<speed', angle'>> = prediction']_vars

\* two ticks in a row predicted the same values and each wrote its message
C14_Witness ==
    /\ pc = "running"
    /\ Len(uart.written) = 2
    /\ uart.written[1] = uart.written[2]
    /\ ParseCommand(uart.written[2]) = prediction

\* C15: at every tick boundary outside a session (record = 0) the frame,
\* speed and angle sequences have the same length, and once a flush has
\* happened all three are empty there.
C15_SequencesAligned ==
    (pc = "running" /\ record = 0) =>
        /\ Len(img_list) = Len(speed_list)
        /\ Len(speed_list) = Len(angle_list)
        /\ (flush.n > 0) =>
              (img_list = <<>> /\ speed_list = <<>> /\ angle_list = <<>>)

\* C16: a RIGHT edge both increases speed and steers right (angle grows), and
\* a LEFT edge both increases speed and steers left (angle shrinks).
C16_SteeringAlsoSpeedsUp ==
    [][/\ (fired' = "RIGHT") => (speed' > speed /\ angle' > angle)
       /\ (fired' = "LEFT") => (speed' > speed /\ angle' < angle)]_vars

\* C17: at the end of every tick the stored previous-tick state of every key
\* of KEY_LIST equals its state as held for the current tick.
C17_SnapshotReplaced ==
    (pc = "running") =>
        \A i \in 1..Len(KEY_LIST) :
            (KEY_LIST[i] \in key_press_t_1) = (KEY_LIST[i] \in key_press_t)

\* C18: a key's action is applied in a tick only if the key is down in that
\* tick and was not down in the tick before, whatever other keys are
\* pressed or released around it.
C18_FiresOnlyOnOwnEdge ==
    [][(fired' # "none") => (fired' \in pressed' /\ fired' \notin pressed)]_vars

\* the keys whose action assigns speed or angle
MotionEventKeys == {"RIGHT", "LEFT", "UP", "DOWN", "g", "s"}

\* C19: a tick in which no motion key fires (no key, a held key, a release,
\* or only 'r' or 'k' firing) leaves speed and angle unchanged.
C19_MotionFrame ==
    [][(fired' \notin MotionEventKeys) =>
          (speed' = speed /\ angle' = angle)]_vars

\* 'r' has just fired while the car was moving
C19_Witness == fired = "r" /\ speed # 0 /\ pc = "running"

DriveCalls == {"move_forward", "move_backward"}

SessionCalls == {"init_camera", "makedirs", "get_img", "collect_data",
                 "save_log"}

TerminateCalls == {"stop", "release_camera", "release"}

\* C21: every manual tick issues exactly one drive command, first of all its
\* collaborator calls (move_forward when speed >= 0, move_backward otherwise),
\* then runs the recording step, then the terminate check; the drive command
\* and the triple logged in the tick carry the speed and angle as updated by
\* that tick's key action.
C21_TickOrder ==
    [][LET cs == calls'
           n == Len(img_list')
       IN /\ Len(cs) >= 1
          /\ cs[1] = (IF speed' >= 0 THEN "move_forward" ELSE "move_backward")
          /\ \A i \in 2..Len(cs) : cs[i] \notin DriveCalls
          /\ \A i, j \in 1..Len(cs) :
                (cs[i] \in SessionCalls /\ cs[j] \in TerminateCalls) => i < j
          /\ ("stop" \notin Range(cs)) =>
                motor' = [cmd |-> cs[1], speed |-> speed', angle |-> angle']
          /\ (n > Len(img_list)) =>
                (speed_list'[Len(speed_list')] = speed'
                 /\ angle_list'[Len(angle_list')] = angle')]_vars

\* UP has just fired during a session: the frame logged and the drive
\* command of this tick both carry the new speed
C21_Witness ==
    /\ fired = "UP"
    /\ calls = <<"move_forward", "get_img", "collect_data">>
    /\ Len(speed_list) >= 2
    /\ speed_list[Len(speed_list)] = speed
    /\ speed_list[Len(speed_list) - 1] # speed
    /\ motor.speed = speed

\* C22: every autonomous tick that runs to its end captures one frame,
\* invokes the model once and then issues exactly one actuation command, a
\* serial message in the UART script and move_forward in the direct-motor
\* script, carrying the speed and angle predicted in that same tick.
C22_OneCommandPerPrediction ==
    [][(pc' = "running") =>
          /\ <<speed', angle'>> = prediction'
          /\ IF uart.is_open
             THEN /\ calls' = <<"get_img", "predict", "send_data", "waitKey">>
                  /\ Len(uart'.written) = Len(uart.written) + 1
                  /\ ParseCommand(uart'.written[Len(uart'.written)])
                        = prediction'
                  /\ motor' = motor
             ELSE /\ calls' =
                        <<"get_img", "predict", "move_forward", "waitKey">>
                  /\ motor' = [cmd |-> "move_forward",
                               speed |-> prediction'[1],
                               angle |-> prediction'[2]]
                  /\ uart' = uart]_vars

\* the direct-motor script has just driven the motor with its prediction
C22_Witness ==
    /\ pc = "running"
    /\ ~uart.is_open
    /\ prediction = <<MaxPrediction, -MaxPrediction>>
    /\ motor = [cmd |-> "move_forward", speed |-> MaxPrediction,
                angle |-> -MaxPrediction]

\* C23: an autonomous tick whose frame capture or model prediction fails
\* issues no actuation command, neither a serial message nor a motor call,
\* and the loop has terminated after it.
C23_NoCommandOnFailure ==
    [][(raised' \in {"get_img", "predict"}) =>
          /\ uart'.written = uart.written
          /\ motor' = motor
          /\ speed' = speed /\ angle' = angle
          /\ "send_data" \notin Range(calls')
          /\ "move_forward" \notin Range(calls')
          /\ pc' # "running"]_vars

\* the UART loop has ended on a failed capture after one good tick
C23_Witness ==
    /\ raised = "get_img"
    /\ pc = "crashed"
    /\ uart.is_open
    /\ Len(uart.written) = 1

\* C24: send_data on a connection that is not open writes nothing and
\* raises nothing, and close on a closed connection changes nothing: once
\* closed, the connection and what was written on it stay as they are.
C24_ClosedPortIsInert ==
    [][(~uart.is_open) => (uart' = uart /\ raised' = "none" /\ pc' = pc)]_vars

\* send_data has just been called on a connection closed after two writes
C24_Witness ==
    /\ ~uart.is_open
    /\ calls = <<"send_data">>
    /\ Len(uart.written) = MaxUartTicks

\* C25: at the end of every tick of the manual loop record is 0 or 2; within
\* a tick it passes through 1 (to 2) or through 3 (to 0) only, and no value
\* above 3 is ever assigned.
C25_RecordAtTickEnd ==
    /\ \A i \in 1..Len(record_steps) : record_steps[i] <= 3
    /\ (pc # "crashed") =>
          /\ record \in {0, 2}
          /\ record_steps \in {<<>>, <<1, 2>>, <<3, 0>>}

\* the tick of the toggle edge that started a session has ended in Capturing
C25_Witness == pc = "running" /\ record_steps = <<1, 2>> /\ record = 2

\* the first key of KEY_LIST that is in the non-empty set d
FirstPressed(d) ==
    KEY_LIST[CHOOSE i \in 1..Len(KEY_LIST) :
                /\ KEY_LIST[i] \in d
                /\ \A j \in 1..(i - 1) : KEY_LIST[j] \notin d]

\* C26: at most one key action is applied per tick, and with several keys
\* down only the first of them in KEY_LIST order is sampled and can act: a
\* later key such as 's' or 'k' does not fire on that tick.
C26_FirstKeyOnly ==
    [][LET m == [speed |-> speed, angle |-> angle, record |-> record,
                 done |-> done]
           n == IF fired' = "none" THEN m ELSE KeyAction(fired', m)
       IN /\ (pressed' # {}) =>
                /\ key_val' = FirstPressed(pressed')
                /\ fired' \in {"none", FirstPressed(pressed')}
          /\ speed' = n.speed
          /\ angle' = n.angle
          /\ done' = n.done]_vars

\* RIGHT and 's' were down together while the car was moving: RIGHT acted,
\* the stop did not
C26_Witness ==
    /\ pressed = {"RIGHT", "s"}
    /\ fired = "RIGHT"
    /\ speed # 0
    /\ angle # 0

\* C27: a triple is appended on the tick of the toggle edge that starts a
\* session and on every later tick while record = 2, none on the tick of the
\* edge that stops it: a session started at tick a and stopped at tick b
\* flushes exactly b - a triples, the ticks a .. b-1 it ran through.
C27_TriplePerSessionTick ==
    [][(pc' # "crashed") =>
          /\ (record' = 2) =>
                /\ Len(img_list') = session_age'
                /\ Len(img_list') =
                      (IF record_steps' = <<1, 2>> THEN 0 ELSE Len(img_list))
                      + 1
          /\ (record_steps' = <<3, 0>>) =>
                /\ "collect_data" \notin Range(calls')
                /\ flush'.n = flush.n + 1
                /\ Len(flush'.records) = session_age]_vars

\* a session that ran through two ticks has been stopped and flushed
C27_Witness ==
    /\ record_steps = <<3, 0>>
    /\ pc = "running"
    /\ session_age = 0
    /\ Len(flush.records) = 2

\* the position of call name in the call sequence cs, 0 when it is not there
Position(cs, name) ==
    IF name \in Range(cs) THEN CHOOSE i \in 1..Len(cs) : cs[i] = name ELSE 0

\* C28: on the tick in which quit fires and the loop breaks, the drive
\* command comes first, then stop, then release_camera, then the motor's
\* release, which is the last call the program makes; release_camera changes
\* nothing when no session ever initialised the camera.
C28_ShutdownOrder ==
    [][LET cs == calls'
           n == Len(cs)
       IN /\ (fired' = "k") =>
                \A i, j \in 1..n :
                   (/\ cs[i] \in DriveCalls \cup SessionCalls
                    /\ cs[j] \in TerminateCalls) => i < j
          /\ (pc' = "exited") =>
                /\ fired' = "k"
                /\ cs[1] \in DriveCalls
                /\ n >= 4
                /\ SubSeq(cs, n - 2, n) = <<"stop", "release_camera", "release">>
                /\ Position(cs, "stop") = n - 2
                /\ motor'.cmd = "stop"
                /\ (camera.state = "none") => (camera' = camera)
                /\ (camera.state # "none") =>
                      (camera'.released = camera.released + 1)
          /\ (pc = "exited") => UNCHANGED vars]_vars

\* quit fired before any session: the loop has broken with the camera
\* never initialised and never released
C28_Witness ==
    /\ pc = "exited"
    /\ fired = "k"
    /\ camera = [state |-> "none", acquired |-> 0, released |-> 0]
    /\ calls = <<"move_forward", "stop", "release_camera", "release">>

====
